---- MODULE Spec2Model ----
(***************************************************************************)
(* A model of likexian/selfca: the certificate library (GenerateCertificate,*)
(* ReadCertificate, WriteCertificate) and the CA-reuse workflow of the      *)
(* selfca command.                                                          *)
(*                                                                          *)
(* Abstraction of the crypto: an RSA key is a record with a fresh id, its   *)
(* public key is the same id; a DER certificate is a tagged record of the   *)
(* fields x509.CreateCertificate encodes, together with the id of the key   *)
(* that signed it; a PEM file is a tagged record around its payload.        *)
(***************************************************************************)
EXTENDS Integers, Sequences, FiniteSets, TLC

VARIABLES
    fs,         \* the filesystem: file name -> content
    nextKey,    \* id of the next RSA key rsa.GenerateKey produces
    gen,        \* the last library call to GenerateCertificate: request and outcome
    wr,         \* the last library call to WriteCertificate
    rd,         \* the last library call to ReadCertificate
    build,      \* which main is running: "cmd" (cmd/selfca) or "legacy" (main.go)
    inv         \* the invocations: invocation number -> its variables and position

vars == <<fs, nextKey, gen, wr, rd, build, inv>>

----------------------------------------------------------------------------
(* Bounds *)

MaxHosts == 2        \* longest Hosts list of a library request
MaxSerial == 2       \* serial numbers are drawn from 0 .. MaxSerial-1 (2^128 in the code)
MaxTime == 3         \* timestamps are 0 .. MaxTime, in ticks

MaxRuns == 2         \* invocations of the command in one behaviour
Now == 1             \* time.Now() of an invocation, in ticks

TicksPerSecond == 2  \* resolution of time.Time relative to the seconds a certificate stores

----------------------------------------------------------------------------
(* Values *)

HostNames == {"127.0.0.1", "::1", "example.com", "ca"}

RECURSIVE SeqsUpTo(_, _)
SeqsUpTo(S, n) ==
    IF n = 0 THEN {<<>>}
    ELSE LET shorter == SeqsUpTo(S, n - 1)
         IN  shorter \cup {Append(s, x) : s \in {t \in shorter : Len(t) = n - 1}, x \in S}

NilKey == [tag |-> "nil", id |-> 0, bits |-> 0]
NilCertificate == [tag |-> "nil"]
NilBytes == [tag |-> "empty"]
NilIP == <<>>

DefaultKeySize == 2048

\* net.ParseIP: the IP a literal denotes, nil for anything else
ParseIP(v) ==
    CASE v = "127.0.0.1" -> <<127, 0, 0, 1>>
      [] v = "::1"       -> <<0, 0, 0, 0, 0, 0, 0, 1>>
      [] OTHER           -> NilIP

\* the zero x509.Certificate extended by the fields the template literal sets
NewTemplate(serialNumber, c) ==
    [tag |-> "x509",
     SerialNumber |-> serialNumber,
     CommonName |-> "",
     NotBefore |-> c.NotBefore,
     NotAfter |-> c.NotAfter,
     IsCA |-> c.IsCA,
     BasicConstraintsValid |-> TRUE,
     KeyUsage |-> {},
     ExtKeyUsage |-> <<>>,
     IPAddresses |-> <<>>,
     DNSNames |-> <<>>,
     Issuer |-> "",
     PublicKey |-> 0,
     SignedBy |-> 0]

\* the role branch: default common name, key usage, extended key usage
RoleTemplate_LeafCertSign(template, c) ==
    [template EXCEPT !.CommonName = IF c.IsCA THEN "Root CA" ELSE c.Hosts[1],
                     !.KeyUsage = {"DigitalSignature", "CertSign"},
                     !.ExtKeyUsage = <<"ServerAuth", "ClientAuth">>]

RoleTemplate(template, c) ==
    IF c.IsCA
    THEN [template EXCEPT !.CommonName = "Root CA",
                          !.KeyUsage = {"DigitalSignature", "CertSign"},
                          !.ExtKeyUsage = <<"ServerAuth", "ClientAuth">>]
    ELSE [template EXCEPT !.CommonName = c.Hosts[1],
                          !.KeyUsage = {"DigitalSignature", "KeyEncipherment"},
                          !.ExtKeyUsage = <<"ServerAuth", "ClientAuth">>]

\* the request's common name replaces the default
OverrideCommonName_CAOnly(template, c) ==
    IF c.CommonName # "" /\ c.IsCA THEN [template EXCEPT !.CommonName = c.CommonName]
    ELSE template

OverrideCommonName(template, c) ==
    IF c.CommonName # "" THEN [template EXCEPT !.CommonName = c.CommonName]
    ELSE template

\* the loop over c.Hosts, from entry i on
RECURSIVE AppendHosts_DNSAlways(_, _, _)
AppendHosts_DNSAlways(template, hosts, i) ==
    IF i > Len(hosts) THEN template
    ELSE LET v == hosts[i]
             ip == ParseIP(v)
             withDNS == [template EXCEPT !.DNSNames = Append(@, v)]
         IN  IF ip # NilIP
             THEN AppendHosts_DNSAlways([withDNS EXCEPT !.IPAddresses = Append(@, ip)], hosts, i + 1)
             ELSE AppendHosts_DNSAlways(withDNS, hosts, i + 1)

RECURSIVE AppendHosts(_, _, _)
AppendHosts(template, hosts, i) ==
    IF i > Len(hosts) THEN template
    ELSE LET v == hosts[i]
             ip == ParseIP(v)
         IN  IF ip # NilIP
             THEN AppendHosts([template EXCEPT !.IPAddresses = Append(@, ip)], hosts, i + 1)
             ELSE AppendHosts([template EXCEPT !.DNSNames = Append(@, v)], hosts, i + 1)

\* a certificate stores its validity in whole seconds
DerTime(t) == t - (t % TicksPerSecond)

\* x509.CreateCertificate(rand, template, parent, pub, priv): nil priv or nil
\* parent is dereferenced (run-time panic); a parsed parent whose public key
\* is not priv's is refused; signErr is a failure of the signature itself.
CreateCertificate(template, parent, pub, priv, signErr) ==
    IF priv.tag = "nil" \/ parent.tag = "nil"
    THEN [panic |-> TRUE, err |-> "nil", certificate |-> NilBytes]
    ELSE IF parent.PublicKey # 0 /\ parent.PublicKey # priv.id
    THEN [panic |-> FALSE, err |-> "x509", certificate |-> NilBytes]
    ELSE IF signErr
    THEN [panic |-> FALSE, err |-> "x509", certificate |-> NilBytes]
    ELSE [panic |-> FALSE, err |-> "nil",
          certificate |->
            [tag |-> "cert",
             tbs |-> [template EXCEPT !.NotBefore = DerTime(@),
                                      !.NotAfter = DerTime(@),
                                      !.Issuer = parent.CommonName,
                                      !.PublicKey = pub,
                                      !.SignedBy = priv.id]]]

\* x509.ParseCertificates: the certificates of a DER payload, none for an
\* empty payload
ParseCertificates(der) ==
    CASE der.tag = "cert"  -> [err |-> "nil", certificate |-> <<der.tbs>>]
      [] der.tag = "empty" -> [err |-> "nil", certificate |-> <<>>]
      [] OTHER             -> [err |-> "x509", certificate |-> <<>>]

\* x509.MarshalPKCS1PrivateKey / x509.ParsePKCS1PrivateKey
MarshalPKCS1PrivateKey(key) == [tag |-> "pkcs1", id |-> key.id, bits |-> key.bits]

ParsePKCS1PrivateKey(der) ==
    IF der.tag = "pkcs1"
    THEN [err |-> "nil", key |-> [tag |-> "key", id |-> der.id, bits |-> der.bits]]
    ELSE [err |-> "x509", key |-> NilKey]

----------------------------------------------------------------------------
(* GenerateCertificate *)

GenReturn(certificate, key, err, trace) ==
    [panic |-> FALSE, certificate |-> certificate, key |-> key, err |-> err,
     trace |-> trace, template |-> NilCertificate]

GenPanic(trace) ==
    [panic |-> TRUE, certificate |-> NilBytes, key |-> NilKey, err |-> "nil",
     trace |-> trace, template |-> NilCertificate]

\* rnd: what the random source and the primitives do in this call
GenerateCertificate(c, rnd) ==
    IF rnd.serialErr THEN GenReturn(NilBytes, NilKey, "rand", <<"rand.Int">>)
    ELSE
    LET serialNumber == rnd.serial
        KeySize == IF c.KeySize <= 0 THEN DefaultKeySize ELSE c.KeySize
    IN
    IF rnd.keyErr THEN GenReturn(NilBytes, NilKey, "rsa", <<"rand.Int", "rsa.GenerateKey">>)
    ELSE
    LET key == [tag |-> "key", id |-> rnd.keyId, bits |-> KeySize]
        template0 == NewTemplate(serialNumber, c)
    IN
    IF ~c.IsCA /\ Len(c.Hosts) = 0
    THEN GenPanic(<<"rand.Int", "rsa.GenerateKey">>)      \* c.Hosts[0]: index out of range
    ELSE
    LET template1 == RoleTemplate(template0, c)
        template2 == OverrideCommonName(template1, c)
        template == AppendHosts(template2, c.Hosts, 1)
        CAKey == IF c.IsCA THEN key ELSE c.CAKey
        CACertificate == IF c.IsCA THEN template ELSE c.CACertificate
        created == CreateCertificate(template, CACertificate, key.id, CAKey, rnd.signErr)
        trace == <<"rand.Int", "rsa.GenerateKey", "x509.CreateCertificate">>
    IN
    IF created.panic THEN [GenPanic(trace) EXCEPT !.template = template]
    ELSE [GenReturn(created.certificate, key, created.err, trace) EXCEPT !.template = template]

----------------------------------------------------------------------------
(* Files *)

OutputDir == "cert"
Bases == {"ca"} \cup HostNames
Files == Bases \X {"crt", "key"}

Absent == [kind |-> "absent"]
Raw == [kind |-> "raw"]              \* bytes that hold no complete PEM block
Pem(type, bytes) == [kind |-> "pem", type |-> type, bytes |-> bytes]

EmptyDir == [f \in Files |-> Absent]

Path(dir, base) == [dir |-> dir, base |-> base]
DirExists(name) == name.dir = OutputDir

\* fmt.Sprintf("%s.crt", name), fmt.Sprintf("%s.key", name)
CertificateName(name) == <<name.base, "crt">>

KeyName_AsCertificateName(name) == <<name.base, "crt">>

KeyName(name) == <<name.base, "key">>

\* os.Create: the file exists and is empty afterwards
Create(fsIn, file) == [fsIn EXCEPT ![file] = Raw]

\* pem.Encode of one block to a file just created
PemEncode(fsIn, file, type, bytes) == [fsIn EXCEPT ![file] = Pem(type, bytes)]

WriteReturn(fsOut, err, trace) == [panic |-> FALSE, err |-> err, fs |-> fsOut, trace |-> trace]

\* io: the system call that fails in this call, "none" when none does
WriteCertificate_KeyFirst(fsIn, name, certificate, key, io) ==
    LET certificateName == CertificateName(name)
        keyName == KeyName(name)
    IN
    IF ~DirExists(name) \/ io = "key.create" THEN WriteReturn(fsIn, "os", <<>>)
    ELSE
    LET fs1 == Create(fsIn, keyName) IN
    IF key = NilKey THEN [panic |-> TRUE, err |-> "nil", fs |-> fs1, trace |-> <<keyName>>]
    ELSE IF io = "key.write" THEN WriteReturn(fs1, "os", <<keyName>>)
    ELSE
    LET fs2 == PemEncode(fs1, keyName, "RSA PRIVATE KEY", MarshalPKCS1PrivateKey(key)) IN
    IF io = "crt.create" THEN WriteReturn(fs2, "os", <<keyName>>)
    ELSE
    LET fs3 == Create(fs2, certificateName) IN
    IF io = "crt.write" THEN WriteReturn(fs3, "os", <<keyName, certificateName>>)
    ELSE WriteReturn(PemEncode(fs3, certificateName, "CERTIFICATE", certificate), "nil",
                     <<keyName, certificateName>>)

WriteCertificate(fsIn, name, certificate, key, io) ==
    LET certificateName == CertificateName(name)
        keyName == KeyName(name)
    IN
    IF ~DirExists(name) \/ io = "crt.create" THEN WriteReturn(fsIn, "os", <<>>)
    ELSE
    LET fs1 == Create(fsIn, certificateName) IN
    IF io = "crt.write" THEN WriteReturn(fs1, "os", <<certificateName>>)
    ELSE
    LET fs2 == PemEncode(fs1, certificateName, "CERTIFICATE", certificate) IN
    IF io = "key.create" THEN WriteReturn(fs2, "os", <<certificateName>>)
    ELSE
    LET fs3 == Create(fs2, keyName) IN
    \* x509.MarshalPKCS1PrivateKey(nil) dereferences the key
    IF key = NilKey
    THEN [panic |-> TRUE, err |-> "nil", fs |-> fs3, trace |-> <<certificateName, keyName>>]
    ELSE IF io = "key.write" THEN WriteReturn(fs3, "os", <<certificateName, keyName>>)
    ELSE WriteReturn(PemEncode(fs3, keyName, "RSA PRIVATE KEY", MarshalPKCS1PrivateKey(key)),
                     "nil", <<certificateName, keyName>>)

ReadError(err) == [err |-> err, certificate |-> <<>>, key |-> NilKey]

\* os.Open and ioutil.ReadAll of a file: fails when the file is not there or
\* when the system call fails
Unreadable(fsIn, name, file, io, ext) ==
    \/ ~DirExists(name)
    \/ fsIn[file] = Absent
    \/ io \in {ext \o ".open", ext \o ".read"}

\* pem.Decode: the first block of the data, nil if there is none
PemDecode(data) == IF data.kind = "pem" THEN data ELSE Absent

ReadCertificate_SameError(fsIn, name, io) ==
    LET certificateName == CertificateName(name)
        keyName == KeyName(name)
    IN
    IF Unreadable(fsIn, name, certificateName, io, "crt") THEN ReadError("os")
    ELSE
    LET p == PemDecode(fsIn[certificateName]) IN
    IF p = Absent THEN ReadError("ErrInvalidCertificate")
    ELSE
    LET parsed == ParseCertificates(p.bytes) IN
    IF parsed.err # "nil" THEN ReadError(parsed.err)
    ELSE IF Unreadable(fsIn, name, keyName, io, "key") THEN ReadError("os")
    ELSE
    LET pk == PemDecode(fsIn[keyName]) IN
    IF pk = Absent THEN ReadError("ErrInvalidCertificate")
    ELSE
    LET parsedKey == ParsePKCS1PrivateKey(pk.bytes) IN
    IF parsedKey.err # "nil" THEN ReadError(parsedKey.err)
    ELSE [err |-> "nil", certificate |-> parsed.certificate, key |-> parsedKey.key]

ReadCertificate(fsIn, name, io) ==
    LET certificateName == CertificateName(name)
        keyName == KeyName(name)
    IN
    IF Unreadable(fsIn, name, certificateName, io, "crt") THEN ReadError("os")
    ELSE
    LET p == PemDecode(fsIn[certificateName]) IN
    IF p = Absent THEN ReadError("ErrInvalidCertificate")
    ELSE
    LET parsed == ParseCertificates(p.bytes) IN
    IF parsed.err # "nil" THEN ReadError(parsed.err)
    ELSE IF Unreadable(fsIn, name, keyName, io, "key") THEN ReadError("os")
    ELSE
    LET pk == PemDecode(fsIn[keyName]) IN
    IF pk = Absent THEN ReadError("ErrInvalidCertificateKey")
    ELSE
    LET parsedKey == ParsePKCS1PrivateKey(pk.bytes) IN
    IF parsedKey.err # "nil" THEN ReadError(parsedKey.err)
    ELSE [err |-> "nil", certificate |-> parsed.certificate, key |-> parsedKey.key]

----------------------------------------------------------------------------
(* Library calls to GenerateCertificate *)

Times == 0 .. MaxTime
HostLists == SeqsUpTo(HostNames, MaxHosts)
CommonNames == {"", "likexian.com"}
KeySizes == {0, 4096}

NoGen == [called |-> FALSE]
NoCall == [called |-> FALSE]

NoFailure(serial, keyId) ==
    [serialErr |-> FALSE, serial |-> serial, keyErr |-> FALSE, keyId |-> keyId, signErr |-> FALSE]

CARequest(cn, ks, nb, na) ==
    [IsCA |-> TRUE, CommonName |-> cn, KeySize |-> ks, NotBefore |-> nb, NotAfter |-> na,
     Hosts |-> <<>>, CAKey |-> NilKey, CACertificate |-> NilCertificate]

\* the CA material a caller holds after issuing a CA: the key and the parsed
\* certificate GenerateCertificate returned; CA number i has key i
IssuedCA(i, cn) ==
    LET out == GenerateCertificate(CARequest(cn, 0, 0, MaxTime), NoFailure(0, i))
    IN  [key |-> out.key, certificate |-> ParseCertificates(out.certificate).certificate[1]]

HeldCAs == {IssuedCA(1, ""), IssuedCA(2, "likexian.com")}

Requests ==
    {CARequest(cn, ks, nb, na) : cn \in CommonNames, ks \in KeySizes, nb \in Times, na \in Times}
    \cup
    {[IsCA |-> FALSE, CommonName |-> cn, KeySize |-> ks, NotBefore |-> nb, NotAfter |-> MaxTime,
      Hosts |-> h, CAKey |-> k, CACertificate |-> crt] :
        cn \in CommonNames, ks \in KeySizes, nb \in Times, h \in HostLists,
        k \in {NilKey} \cup {ca.key : ca \in HeldCAs},
        crt \in {NilCertificate} \cup {ca.certificate : ca \in HeldCAs}}

\* at most one primitive fails in a call: a failure ends the call
Rnds(keyId) ==
    {[serialErr |-> (f = "rand"), serial |-> s, keyErr |-> (f = "rsa"), keyId |-> keyId,
      signErr |-> (f = "x509")] :
        f \in {"none", "rand", "rsa", "x509"}, s \in 0 .. MaxSerial - 1}

\* the draws of an invocation of the command: the least and the greatest serial
CliRnds(keyId) == {rnd \in Rnds(keyId) : rnd.serial \in {0, MaxSerial - 1}}

\* whether a call generated a key
UsedKey(out) == Len(out.trace) >= 2 /\ out.err # "rsa"

CallGenerateCertificate ==
    /\ ~gen.called
    /\ LET out == GenerateCertificate(gen.req, gen.rnd)
       IN  /\ gen' = [called |-> TRUE, req |-> gen.req, rnd |-> gen.rnd, out |-> out]
           /\ nextKey' = IF UsedKey(out) THEN nextKey + 1 ELSE nextKey
    /\ UNCHANGED <<fs, wr, rd, build, inv>>

InitGen ==
    /\ fs = EmptyDir
    /\ nextKey = Cardinality(HeldCAs) + 1
    /\ \E c \in Requests, rnd \in Rnds(nextKey) : gen = [called |-> FALSE, req |-> c, rnd |-> rnd]
    /\ wr = NoCall
    /\ rd = NoCall
    /\ build = "cmd"
    /\ inv = <<>>

NextGen == CallGenerateCertificate

SpecGen == InitGen /\ [][NextGen]_vars

----------------------------------------------------------------------------
(* Library calls to WriteCertificate and ReadCertificate *)

IONames == {Path(OutputDir, "ca"), Path("not-exists", "ca")}

WriteFailures == {"none", "crt.create", "crt.write", "key.create", "key.write"}
ReadFailures == {"none", "crt.open", "crt.read", "key.open", "key.read"}

\* certificate and key as GenerateCertificate returns them: two CAs and a
\* leaf of the first CA
IssuedLeaf(i) ==
    LET ca == IssuedCA(1, "")
    IN  GenerateCertificate(
            [IsCA |-> FALSE, CommonName |-> "", KeySize |-> 4096, NotBefore |-> 1,
             NotAfter |-> MaxTime, Hosts |-> <<"127.0.0.1", "example.com">>,
             CAKey |-> ca.key, CACertificate |-> ca.certificate],
            NoFailure(MaxSerial - 1, i))

IssuedPairs ==
    {[certificate |-> out.certificate, key |-> out.key] :
        out \in {GenerateCertificate(CARequest("", 0, 0, MaxTime), NoFailure(0, 1)),
                 GenerateCertificate(CARequest("likexian.com", 4096, 1, MaxTime), NoFailure(0, 2)),
                 IssuedLeaf(3)}}

\* the pairs a caller passes: an issued pair, a certificate without its key,
\* or nothing at all
WriteArguments ==
    IssuedPairs
    \cup {[certificate |-> IssuedLeaf(3).certificate, key |-> NilKey],
          [certificate |-> NilBytes, key |-> NilKey]}

CallWriteCertificate ==
    /\ \E name \in IONames, arg \in WriteArguments, io \in WriteFailures :
        LET out == WriteCertificate(fs, name, arg.certificate, arg.key, io)
        IN  /\ wr' = [called |-> TRUE, name |-> name, certificate |-> arg.certificate,
                      key |-> arg.key, io |-> io, before |-> fs, out |-> out]
            /\ fs' = out.fs
    /\ rd' = NoCall
    /\ UNCHANGED <<nextKey, gen, build, inv>>

CallReadCertificate ==
    /\ \E name \in IONames, io \in ReadFailures :
        rd' = [called |-> TRUE, name |-> name, io |-> io,
               out |-> ReadCertificate(fs, name, io)]
    /\ UNCHANGED <<fs, nextKey, gen, wr, build, inv>>

\* what a file holds after somebody else wrote or removed it: nothing, bytes
\* without a PEM block, or a PEM block around a payload that is no certificate
\* and no key
ForeignContents == {Absent, Raw, Pem("CERTIFICATE", NilBytes), Pem("X", [tag |-> "junk"])}

\* ioutil.WriteFile and os.Remove on the files of the pair
EnvWriteFile ==
    /\ \E file \in {CertificateName(Path(OutputDir, "ca")), KeyName(Path(OutputDir, "ca"))},
          content \in ForeignContents :
        /\ fs[file] # content
        /\ fs' = [fs EXCEPT ![file] = content]
    /\ wr' = NoCall
    /\ rd' = NoCall
    /\ UNCHANGED <<nextKey, gen, build, inv>>

InitIO ==
    /\ fs = EmptyDir
    /\ nextKey = Cardinality(IssuedPairs) + 1
    /\ gen = NoGen
    /\ wr = NoCall
    /\ rd = NoCall
    /\ build = "cmd"
    /\ inv = <<>>

NextIO == CallWriteCertificate \/ CallReadCertificate \/ EnvWriteFile

SpecIO == InitIO /\ [][NextIO]_vars

----------------------------------------------------------------------------
(* The command: one invocation of main, stage by stage *)

FlagBits == 2048                 \* default of -b
FlagDays == 365                  \* default of -d
CAYears == 10
Day == 24 * 3600 * TicksPerSecond

\* the hosts of -h after splitting, the empty list included
CliHostLists == {<<>>, <<"example.com">>, <<"ca">>, <<"127.0.0.1", "example.com">>}
CliNames == {"", "likexian.com"}                    \* -n

Terminated == {"done", "failed", "panic", "usage"}

CAPath == Path(OutputDir, "ca")

\* the variables of main after flag parsing; main.go has no -n and no -b, its
\* GenerateCertificate is the one of the package with the key size fixed to
\* the default and no common name
NewInvocation(hosts, name) ==
    [pc |-> IF Len(hosts) = 0 THEN "usage" ELSE "probe",
     hosts |-> hosts,
     name |-> name,
     notBefore |-> Now,
     notAfter |-> Now + FlagDays * Day,
     found |-> "unprobed",
     caCertificate |-> <<>>,
     caKey |-> NilKey,
     innerCAKey |-> NilKey,
     certificate |-> NilBytes,
     key |-> NilKey,
     stages |-> <<>>,
     failed |-> "none",
     \* history: another invocation was running when this one started
     overlapped |-> \E q \in 1 .. Len(inv) : inv[q].pc \notin Terminated]

\* the step of invocation p: stage done, variables updated, next position
Step(p, stage, r, pc) ==
    inv' = [inv EXCEPT ![p] = [r EXCEPT !.stages = Append(@, stage), !.pc = pc]]

\* fmt.Fprintf(os.Stderr, ...); os.Exit(1)
Exit1(p, stage) ==
    inv' = [inv EXCEPT ![p] = [@ EXCEPT !.stages = Append(@, stage), !.pc = "failed",
                                        !.failed = stage]]

Panic(p, stage) ==
    inv' = [inv EXCEPT ![p] = [@ EXCEPT !.stages = Append(@, stage), !.pc = "panic",
                                        !.failed = stage]]

\* invocations do not overlap: one starts when the ones before have ended
Start ==
    /\ Len(inv) < MaxRuns
    /\ \A q \in 1 .. Len(inv) : inv[q].pc \in Terminated
    /\ \E hosts \in CliHostLists, name \in (IF build = "cmd" THEN CliNames ELSE {""}) :
        inv' = Append(inv, NewInvocation(hosts, name))
    /\ UNCHANGED <<fs, nextKey, gen, wr, rd, build>>

\* os.Stat(caPath + ".crt")
Probe(p) ==
    /\ inv[p].pc = "probe"
    /\ IF fs[CertificateName(CAPath)] # Absent
       THEN Step(p, "probe", [inv[p] EXCEPT !.found = "present"], "load")
       ELSE Step(p, "probe", [inv[p] EXCEPT !.found = "absent"], "generate-ca")
    /\ UNCHANGED <<fs, nextKey, gen, wr, rd, build>>

LoadCA(p) ==
    /\ inv[p].pc = "load"
    /\ \E io \in ReadFailures :
        LET out == ReadCertificate(fs, CAPath, io)
        IN  IF out.err # "nil" THEN Exit1(p, "load")
            ELSE Step(p, "load",
                      [inv[p] EXCEPT !.caCertificate = out.certificate, !.caKey = out.key],
                      "generate-leaf")
    /\ UNCHANGED <<fs, nextKey, gen, wr, rd, build>>

CARequestOf(r) ==
    IF build = "cmd"
    THEN [IsCA |-> TRUE, CommonName |-> "", KeySize |-> FlagBits, NotBefore |-> r.notBefore,
          NotAfter |-> r.notBefore + CAYears * 365 * Day,
          Hosts |-> <<>>, CAKey |-> NilKey, CACertificate |-> NilCertificate]
    ELSE [IsCA |-> TRUE, CommonName |-> "", KeySize |-> 0, NotBefore |-> r.notBefore,
          NotAfter |-> r.notAfter,
          Hosts |-> <<>>, CAKey |-> NilKey, CACertificate |-> NilCertificate]

\* the key GenerateCertificate returned goes to main's caKey in cmd/selfca; in
\* main.go ":=" declares a caKey of the else block and main's caKey stays nil
AssignCAKey(r, key) ==
    IF build = "cmd" THEN [r EXCEPT !.caKey = key, !.innerCAKey = key]
    ELSE [r EXCEPT !.innerCAKey = key]

GenerateCA(p) ==
    /\ inv[p].pc = "generate-ca"
    /\ \E rnd \in CliRnds(nextKey) :
        LET out == GenerateCertificate(CARequestOf(inv[p]), rnd)
        IN  /\ nextKey' = IF UsedKey(out) THEN nextKey + 1 ELSE nextKey
            /\ IF out.err # "nil" THEN Exit1(p, "generate-ca")
               ELSE Step(p, "generate-ca",
                         AssignCAKey([inv[p] EXCEPT !.certificate = out.certificate], out.key),
                         "write-ca")
    /\ UNCHANGED <<fs, gen, wr, rd, build>>

WriteCA(p) ==
    /\ inv[p].pc = "write-ca"
    /\ \E io \in WriteFailures :
        LET out == WriteCertificate(fs, CAPath, inv[p].certificate, inv[p].innerCAKey, io)
        IN  /\ fs' = out.fs
            /\ IF out.panic THEN Panic(p, "write-ca")
               ELSE IF out.err # "nil" THEN Exit1(p, "write-ca")
               ELSE Step(p, "write-ca", inv[p], "parse-ca")
    /\ UNCHANGED <<nextKey, gen, wr, rd, build>>

ParseCA(p) ==
    /\ inv[p].pc = "parse-ca"
    /\ LET out == ParseCertificates(inv[p].certificate)
       IN  IF out.err # "nil" THEN Exit1(p, "parse-ca")
           ELSE Step(p, "parse-ca", [inv[p] EXCEPT !.caCertificate = out.certificate],
                     "generate-leaf")
    /\ UNCHANGED <<fs, nextKey, gen, wr, rd, build>>

LeafRequestOf(r) ==
    [IsCA |-> FALSE,
     CommonName |-> r.name,
     KeySize |-> IF build = "cmd" THEN FlagBits ELSE 0,
     NotBefore |-> r.notBefore,
     NotAfter |-> r.notAfter,
     Hosts |-> r.hosts,
     CAKey |-> r.caKey,
     CACertificate |-> r.caCertificate[1]]

GenerateLeaf_Retry(p) ==
    /\ inv[p].pc \in {"generate-leaf", "done"}
    /\ Len(inv[p].stages) < 8
    /\ IF Len(inv[p].caCertificate) = 0 THEN Panic(p, "generate-leaf") /\ UNCHANGED nextKey
       ELSE \E rnd \in CliRnds(nextKey) :
        LET out == GenerateCertificate(LeafRequestOf(inv[p]), rnd)
        IN  /\ nextKey' = IF UsedKey(out) THEN nextKey + 1 ELSE nextKey
            /\ IF out.panic THEN Panic(p, "generate-leaf")
               ELSE IF out.err # "nil" THEN Exit1(p, "generate-leaf")
               ELSE Step(p, "generate-leaf",
                         [inv[p] EXCEPT !.certificate = out.certificate, !.key = out.key],
                         "write-leaf")
    /\ UNCHANGED <<fs, gen, wr, rd, build>>

GenerateLeaf(p) ==
    /\ inv[p].pc = "generate-leaf"
    \* caCertificate[0] of an empty list: index out of range
    /\ IF Len(inv[p].caCertificate) = 0 THEN Panic(p, "generate-leaf") /\ UNCHANGED nextKey
       ELSE \E rnd \in CliRnds(nextKey) :
        LET out == GenerateCertificate(LeafRequestOf(inv[p]), rnd)
        IN  /\ nextKey' = IF UsedKey(out) THEN nextKey + 1 ELSE nextKey
            /\ IF out.panic THEN Panic(p, "generate-leaf")
               ELSE IF out.err # "nil" THEN Exit1(p, "generate-leaf")
               ELSE Step(p, "generate-leaf",
                         [inv[p] EXCEPT !.certificate = out.certificate, !.key = out.key],
                         "write-leaf")
    /\ UNCHANGED <<fs, gen, wr, rd, build>>

WriteLeaf(p) ==
    /\ inv[p].pc = "write-leaf"
    /\ \E io \in WriteFailures :
        LET out == WriteCertificate(fs, Path(OutputDir, inv[p].hosts[1]),
                                    inv[p].certificate, inv[p].key, io)
        IN  /\ fs' = out.fs
            /\ IF out.panic THEN Panic(p, "write-leaf")
               ELSE IF out.err # "nil" THEN Exit1(p, "write-leaf")
               ELSE Step(p, "write-leaf", inv[p], "done")
    /\ UNCHANGED <<nextKey, gen, wr, rd, build>>

Init ==
    /\ fs = EmptyDir
    /\ nextKey = 1
    /\ gen = NoGen
    /\ wr = NoCall
    /\ rd = NoCall
    /\ build \in {"cmd", "legacy"}
    /\ inv = <<>>

Next ==
    \/ Start
    \/ \E p \in 1 .. Len(inv) : Probe(p)
    \/ \E p \in 1 .. Len(inv) : LoadCA(p)
    \/ \E p \in 1 .. Len(inv) : GenerateCA(p)
    \/ \E p \in 1 .. Len(inv) : WriteCA(p)
    \/ \E p \in 1 .. Len(inv) : ParseCA(p)
    \/ \E p \in 1 .. Len(inv) : GenerateLeaf(p)
    \/ \E p \in 1 .. Len(inv) : WriteLeaf(p)

Spec == Init /\ [][Next]_vars

\* two processes of the command on one output directory: the second is
\* started at any time, also while the first is running; their stages
\* interleave, each call of the library taken as one step; an invocation
\* without hosts ends before it touches the directory and is left out
StartConcurrent ==
    /\ Len(inv) < 2
    /\ \E hosts \in CliHostLists \ {<<>>}, name \in (IF build = "cmd" THEN CliNames ELSE {""}) :
        inv' = Append(inv, NewInvocation(hosts, name))
    /\ UNCHANGED <<fs, nextKey, gen, wr, rd, build>>

NextConcurrent ==
    \/ StartConcurrent
    \/ \E p \in 1 .. Len(inv) : Probe(p)
    \/ \E p \in 1 .. Len(inv) : LoadCA(p)
    \/ \E p \in 1 .. Len(inv) : GenerateCA(p)
    \/ \E p \in 1 .. Len(inv) : WriteCA(p)
    \/ \E p \in 1 .. Len(inv) : ParseCA(p)
    \/ \E p \in 1 .. Len(inv) : GenerateLeaf(p)
    \/ \E p \in 1 .. Len(inv) : WriteLeaf(p)

SpecConcurrent == Init /\ [][NextConcurrent]_vars

----------------------------------------------------------------------------
(* Properties of GenerateCertificate, under SpecGen *)

GenReturned == gen.called /\ ~gen.out.panic
GenSucceeded == GenReturned /\ gen.out.err = "nil"
GenCertificate == gen.out.certificate.tbs

\* C2: a leaf request with empty Hosts fails with a returned error, and no
\* RSA key has been generated when it fails.
C2_EmptyHostsRejectedBeforeKey ==
    (gen.called /\ ~gen.req.IsCA /\ gen.req.Hosts = <<>>) =>
        /\ GenReturned
        /\ gen.out.err # "nil"
        /\ \A i \in 1 .. Len(gen.out.trace) : gen.out.trace[i] # "rsa.GenerateKey"

ExpectedCommonName(c) ==
    IF c.CommonName # "" THEN c.CommonName
    ELSE IF c.IsCA THEN "Root CA" ELSE c.Hosts[1]

\* C3: the subject common name of an issued certificate is the request's
\* CommonName when that is non-empty, otherwise "Root CA" for a CA and the
\* first host for a leaf.
C3_SubjectCommonName ==
    GenSucceeded => GenCertificate.CommonName = ExpectedCommonName(gen.req)

C3_Witness ==
    /\ GenSucceeded
    /\ ~gen.req.IsCA
    /\ gen.req.CommonName = "likexian.com"
    /\ gen.req.Hosts = <<"127.0.0.1", "example.com">>
    /\ GenCertificate.CommonName = "likexian.com"

IsIPLiteral(v) == ParseIP(v) # NilIP
IsDNSName(v) == ParseIP(v) = NilIP
IPsOf(hosts) == LET lit == SelectSeq(hosts, IsIPLiteral)
                IN  [i \in 1 .. Len(lit) |-> ParseIP(lit[i])]

\* C4: every host of a leaf request is in exactly one SAN list of the issued
\* certificate, the IP list if it parses as an IP and the DNS list otherwise,
\* in input order, none dropped and none duplicated.
C4_SANClassification ==
    (GenSucceeded /\ ~gen.req.IsCA) =>
        /\ GenCertificate.IPAddresses = IPsOf(gen.req.Hosts)
        /\ GenCertificate.DNSNames = SelectSeq(gen.req.Hosts, IsDNSName)
        /\ Len(GenCertificate.IPAddresses) + Len(GenCertificate.DNSNames) = Len(gen.req.Hosts)

C4_Witness ==
    /\ GenSucceeded
    /\ ~gen.req.IsCA
    /\ gen.req.Hosts = <<"127.0.0.1", "example.com">>
    /\ GenCertificate.IPAddresses = <<(<<127, 0, 0, 1>>)>>
    /\ GenCertificate.DNSNames = <<"example.com">>

\* C8: leaf issuance without the CA key or without the CA certificate ends by
\* returning an error: no certificate, and no abort without an error.
C8_MissingCAReturnsError ==
    (/\ gen.called
     /\ ~gen.req.IsCA
     /\ gen.req.Hosts # <<>>
     /\ (gen.req.CAKey = NilKey \/ gen.req.CACertificate = NilCertificate)) =>
        (GenReturned /\ gen.out.err # "nil")

ExpectedKeyUsage(isCA) ==
    IF isCA THEN {"DigitalSignature", "CertSign"} ELSE {"DigitalSignature", "KeyEncipherment"}

UsagesOf(t, c) ==
    /\ t.KeyUsage = ExpectedKeyUsage(c.IsCA)
    /\ t.ExtKeyUsage = <<"ServerAuth", "ClientAuth">>
    /\ t.IsCA = c.IsCA
    /\ (~c.IsCA => "CertSign" \notin t.KeyUsage)

\* C10: the template, and the certificate issued from it, has key usage
\* {digital signature, certificate signing} for a CA and {digital signature,
\* key encipherment} for a leaf, extended key usage {server authentication,
\* client authentication} for both, and the CA flag of the request.
C10_KeyUsage ==
    /\ (gen.called /\ gen.out.template # NilCertificate) => UsagesOf(gen.out.template, gen.req)
    /\ GenSucceeded => UsagesOf(GenCertificate, gen.req)

C10_Witness ==
    /\ GenSucceeded
    /\ ~gen.req.IsCA
    /\ GenCertificate.KeyUsage = {"DigitalSignature", "KeyEncipherment"}
    /\ ~GenCertificate.IsCA

----------------------------------------------------------------------------
(* Properties of WriteCertificate and ReadCertificate, under SpecIO *)

WriteSucceeded == wr.called /\ ~wr.out.panic /\ wr.out.err = "nil"

\* a read of the name just written, with no failing system call
ReadBack == rd.called /\ WriteSucceeded /\ rd.name = wr.name /\ rd.io = "none"

\* C5: after a successful WriteCertificate of an issued certificate and its
\* key, ReadCertificate of the same name succeeds; its first certificate has
\* the serial number, subject common name, SAN lists and validity window of
\* the one written, and its key is the key written.
C5_RoundTrip ==
    (ReadBack /\ wr.certificate.tag = "cert") =>
        /\ rd.out.err = "nil"
        /\ Len(rd.out.certificate) >= 1
        /\ LET decoded == rd.out.certificate[1]
               original == wr.certificate.tbs
           IN  /\ decoded.SerialNumber = original.SerialNumber
               /\ decoded.CommonName = original.CommonName
               /\ decoded.DNSNames = original.DNSNames
               /\ decoded.IPAddresses = original.IPAddresses
               /\ decoded.NotBefore = original.NotBefore
               /\ decoded.NotAfter = original.NotAfter
               /\ decoded.PublicKey = original.PublicKey
        /\ rd.out.key = wr.key

C5_Witness ==
    /\ ReadBack
    /\ wr.certificate = IssuedLeaf(3).certificate
    /\ rd.out.err = "nil"
    /\ rd.out.certificate[1].DNSNames = <<"example.com">>
    /\ rd.out.key.id = 3

\* the conditions of a read, from the files as they are
ReadCrt == fs[CertificateName(rd.name)]
ReadKey == fs[KeyName(rd.name)]
CrtUnreadable ==
    ~DirExists(rd.name) \/ ReadCrt.kind = "absent" \/ rd.io \in {"crt.open", "crt.read"}
CrtNoPem == ReadCrt.kind # "pem"
CrtUnparsable == ReadCrt.bytes.tag \notin {"cert", "empty"}
KeyUnreadable == ReadKey.kind = "absent" \/ rd.io \in {"key.open", "key.read"}
KeyNoPem == ReadKey.kind # "pem"
KeyUnparsable == ReadKey.bytes.tag # "pkcs1"

ExpectedReadError ==
    CASE CrtUnreadable -> "os"
      [] ~CrtUnreadable /\ CrtNoPem -> "ErrInvalidCertificate"
      [] ~CrtUnreadable /\ ~CrtNoPem /\ CrtUnparsable -> "x509"
      [] ~CrtUnreadable /\ ~CrtNoPem /\ ~CrtUnparsable /\ KeyUnreadable -> "os"
      [] ~CrtUnreadable /\ ~CrtNoPem /\ ~CrtUnparsable /\ ~KeyUnreadable /\ KeyNoPem ->
            "ErrInvalidCertificateKey"
      [] ~CrtUnreadable /\ ~CrtNoPem /\ ~CrtUnparsable /\ ~KeyUnreadable /\ ~KeyNoPem
            /\ KeyUnparsable -> "x509"
      [] OTHER -> "nil"

\* C6: ReadCertificate fails with the error of the first of these that holds:
\* certificate file unreadable, no PEM block in it, payload unparsable, key
\* file unreadable, no PEM block in it, payload no PKCS#1 key; on an error it
\* returns neither certificates nor a key; it succeeds when none holds.
C6_ReadErrors ==
    rd.called =>
        /\ rd.out.err = ExpectedReadError
        /\ rd.out.err # "nil" => (rd.out.certificate = <<>> /\ rd.out.key = NilKey)
        /\ rd.out.err = "nil" => rd.out.key # NilKey

C6_Witness ==
    /\ rd.called
    /\ ReadCrt.kind = "pem"
    /\ ReadCrt.bytes.tag = "cert"
    /\ ReadKey = Raw
    /\ rd.io = "none"
    /\ rd.out.err = "ErrInvalidCertificateKey"

WrittenCrt == Pem("CERTIFICATE", wr.certificate)
WrittenKey == Pem("RSA PRIVATE KEY", [tag |-> "pkcs1", id |-> wr.key.id, bits |-> wr.key.bits])
CrtFailed == ~DirExists(wr.name) \/ wr.io \in {"crt.create", "crt.write"}
KeyFailed ==
    DirExists(wr.name) /\ (wr.io = "key.create" \/ (wr.io = "key.write" /\ wr.key # NilKey))

\* C7: WriteCertificate succeeds only with both files written; it touches the
\* certificate file before the key file; when the certificate file fails it
\* returns an error and leaves the key file as it was; when the key file
\* fails it returns an error and leaves the certificate it wrote in place.
C7_WriteOrderAndFailure ==
    wr.called =>
        LET crt == CertificateName(wr.name)
            key == KeyName(wr.name)
            trace == wr.out.trace
        IN  /\ WriteSucceeded => (wr.out.fs[crt] = WrittenCrt /\ wr.out.fs[key] = WrittenKey)
            /\ \A i \in 1 .. Len(trace) : trace[i] = key => (i > 1 /\ trace[i - 1] = crt)
            /\ CrtFailed =>
                (~wr.out.panic /\ wr.out.err # "nil" /\ wr.out.fs[key] = wr.before[key])
            /\ KeyFailed =>
                (~wr.out.panic /\ wr.out.err # "nil" /\ wr.out.fs[crt] = WrittenCrt)

C7_Witness ==
    /\ wr.called
    /\ wr.io = "key.write"
    /\ wr.key # NilKey
    /\ wr.out.err = "os"
    /\ wr.before[CertificateName(wr.name)] = Absent
    /\ fs[CertificateName(wr.name)] = WrittenCrt
    /\ fs[KeyName(wr.name)] = Raw

----------------------------------------------------------------------------
(* Properties of the command, under Spec *)

Invocations == 1 .. Len(inv)

IsPrefix(a, b) == Len(a) <= Len(b) /\ \A i \in 1 .. Len(a) : a[i] = b[i]

Ran(p, stage) == \E i \in 1 .. Len(inv[p].stages) : inv[p].stages[i] = stage
Passed(p, stage) == Ran(p, stage) /\ inv[p].failed # stage

\* the invocation generated a leaf certificate
IssuedLeafIn(p) == Passed(p, "generate-leaf")
LeafOf(p) == inv[p].certificate.tbs

\* C1: an invocation that finds the CA container generates no CA, and all the
\* leaves issued against the output location are signed by one CA key under
\* one CA certificate.
C1_SameCAForAllLeaves ==
    /\ \A p \in Invocations :
        inv[p].found = "present" => (~Ran(p, "generate-ca") /\ ~Ran(p, "write-ca"))
    /\ \A p, q \in Invocations :
        (IssuedLeafIn(p) /\ IssuedLeafIn(q)) =>
            /\ LeafOf(p).SignedBy = LeafOf(q).SignedBy
            /\ inv[p].caCertificate[1].PublicKey = inv[q].caCertificate[1].PublicKey

LoadPath == <<"probe", "load", "generate-leaf", "write-leaf">>
GeneratePath == <<"probe", "generate-ca", "write-ca", "generate-leaf", "write-leaf">>

\* the stages of the workflow an invocation has run, in order
WorkflowStages(p) == SelectSeq(inv[p].stages, LAMBDA st : st # "parse-ca")

\* C9: an invocation runs probe, then load or (generate CA, persist CA), then
\* generate leaf, then persist leaf; it ends at the first stage that fails;
\* it persists a leaf only after the CA was loaded or generated and
\* persisted, and at most once.
C9_StageOrder ==
    \A p \in Invocations :
        LET r == inv[p]
            st == WorkflowStages(p)
        IN  /\ IsPrefix(st, LoadPath) \/ IsPrefix(st, GeneratePath)
            /\ r.failed # "none" =>
                (r.pc \in {"failed", "panic"} /\ r.stages[Len(r.stages)] = r.failed)
            /\ r.pc \in {"failed", "panic"} => r.failed # "none"
            /\ Ran(p, "write-leaf") =>
                \/ Passed(p, "load")
                \/ (Passed(p, "generate-ca") /\ Passed(p, "write-ca"))
            /\ Cardinality({i \in 1 .. Len(r.stages) : r.stages[i] = "write-leaf"}) <= 1
            /\ r.pc = "done" => st \in {LoadPath, GeneratePath}

C9_Witness ==
    \E p \in Invocations :
        /\ inv[p].pc = "failed"
        /\ inv[p].failed = "write-ca"
        /\ inv[p].stages = <<"probe", "generate-ca", "write-ca">>
        /\ \E q \in Invocations : inv[q].pc = "done" /\ WorkflowStages(q) = GeneratePath

CAOnDisk(certificate, key) ==
    /\ fs[CertificateName(CAPath)] = Pem("CERTIFICATE", certificate)
    /\ fs[KeyName(CAPath)] = Pem("RSA PRIVATE KEY", MarshalPKCS1PrivateKey(key))

\* C11: an invocation that found no CA container and has generated and
\* persisted a CA holds, when it comes to issue the leaf, the CA key it
\* generated: the key is not nil, it is the key of the certificate it holds
\* and the pair is the one in ca.crt and ca.key; issuing the leaf does not
\* panic and the leaf is signed by that key.
C11_GeneratedCASignsLeaf ==
    \A p \in Invocations :
        LET r == inv[p]
        IN  (r.found = "absent" /\ Passed(p, "write-ca") /\ Passed(p, "parse-ca")) =>
                /\ r.caKey # NilKey
                /\ r.caKey = r.innerCAKey
                /\ Len(r.caCertificate) = 1
                /\ r.caCertificate[1].PublicKey = r.caKey.id
                /\ r.pc = "generate-leaf" => CAOnDisk(r.certificate, r.caKey)
                /\ r.pc # "panic"
                /\ IssuedLeafIn(p) => LeafOf(p).SignedBy = r.caKey.id

\* the step is one of an invocation that found the CA container
StepOfReuse ==
    \E p \in Invocations : inv[p].found = "present" /\ inv'[p] # inv[p]

\* C13: no step of an invocation that found the CA container changes ca.crt
\* or ca.key, whatever its host list.
C13_ReuseLeavesCAUnchanged ==
    [][(Len(inv') = Len(inv) /\ StepOfReuse) =>
            /\ fs'[CertificateName(CAPath)] = fs[CertificateName(CAPath)]
            /\ fs'[KeyName(CAPath)] = fs[KeyName(CAPath)]]_vars

\* invocation q was cut short while it wrote the CA container, after ca.crt
\* and before ca.key: ca.crt is the certificate it was writing and ca.key is
\* not the key it was writing
CutWriteOfCA(q) ==
    LET r == inv[q]
        key == IF r.failed = "write-ca" THEN r.innerCAKey ELSE r.key
    IN  /\ r.failed = "write-ca" \/ (r.failed = "write-leaf" /\ r.hosts[1] = CAPath.base)
        /\ fs[CertificateName(CAPath)] = Pem("CERTIFICATE", r.certificate)
        /\ fs[KeyName(CAPath)] # Pem("RSA PRIVATE KEY", MarshalPKCS1PrivateKey(key))

\* C12: an invocation that comes after one that was cut short between ca.crt
\* and ca.key finds ca.crt, fails when it loads the CA and ends there: it
\* generates no CA, writes no CA and writes no leaf.
C12_CutWriteFailsTheLoad ==
    \A p \in Invocations : \A q \in 1 .. p - 1 :
        LET r == inv[p]
        IN  (CutWriteOfCA(q) /\ r.found # "unprobed" /\ r.pc # "load") =>
                /\ r.found = "present"
                /\ r.pc = "failed"
                /\ r.failed = "load"
                /\ r.stages = <<"probe", "load">>

----------------------------------------------------------------------------
(* Properties of concurrent invocations, under SpecConcurrent *)

\* two invocations found no CA container and generated a CA each
TwoCAs ==
    \E p, q \in Invocations :
        /\ p # q
        /\ inv[p].found = "absent" /\ Passed(p, "generate-ca")
        /\ inv[q].found = "absent" /\ Passed(q, "generate-ca")
        /\ inv[p].innerCAKey # inv[q].innerCAKey

IsCertificateFile(data) == data.kind = "pem" /\ data.bytes.tag = "cert"
IsKeyFile(data) == data.kind = "pem" /\ data.bytes.tag = "pkcs1"

\* a leaf on disk is signed by another key than the one of the certificate in
\* ca.crt
LeafOfAnotherCA ==
    \E p \in Invocations :
        /\ inv[p].pc = "done"
        /\ fs[CertificateName(Path(OutputDir, inv[p].hosts[1]))]
                = Pem("CERTIFICATE", inv[p].certificate)
        /\ IsCertificateFile(fs[CertificateName(CAPath)])
        /\ LeafOf(p).SignedBy # fs[CertificateName(CAPath)].bytes.tbs.PublicKey

\* ca.crt and ca.key are well formed and the key is not the certificate's
MixedCAPair ==
    /\ IsCertificateFile(fs[CertificateName(CAPath)])
    /\ IsKeyFile(fs[KeyName(CAPath)])
    /\ fs[CertificateName(CAPath)].bytes.tbs.PublicKey # fs[KeyName(CAPath)].bytes.id

Overlapped == \E p \in Invocations : inv[p].overlapped

\* the state two overlapping invocations reach when both find no ca.crt
RaceOnProbe ==
    /\ Overlapped
    /\ TwoCAs
    /\ LeafOfAnotherCA \/ MixedCAPair

\* C14: two invocations that both generated a CA, with a leaf on disk signed
\* by another CA than the stored one or with ca.crt and ca.key of different
\* CAs, is a state that overlapping invocations reach (RaceOnProbe) and that
\* invocations run one after the other do not reach.
C14_NoRaceWithoutOverlap ==
    ~Overlapped => ~(TwoCAs /\ (LeafOfAnotherCA \/ MixedCAPair))

----------------------------------------------------------------------------
(* The results of a failed GenerateCertificate, under SpecGen *)

\* C15: a call of GenerateCertificate that returns an error returns nil
\* certificate bytes and a nil key.
C15_ErrorReturnsNothing ==
    (GenReturned /\ gen.out.err # "nil") =>
        (gen.out.certificate = NilBytes /\ gen.out.key = NilKey)

====
